---- MODULE Spec2Model ----
(***************************************************************************)
(* Model of dgt.py: the fixed-width line parser (parse_line), the archive  *)
(* fetcher (download_and_extract_file), the per-file loader                *)
(* (process_and_insert_file) and the ingestion driver (main) over a        *)
(* SQLite table with UNIQUE (bastidor, fecha_matriculacion).               *)
(*                                                                         *)
(* Text is a sequence of one-character strings.  SQL NULL / Python None    *)
(* in a numeric or date column is the integer NULL; the values the parser  *)
(* produces in those columns are never negative.                          *)
(***************************************************************************)
EXTENDS Integers, Sequences, FiniteSets, TLC

VARIABLES
    pc,             \* position of main: idle, loop, check, file, commit, done, crashed
    runs,           \* number of times main has been started
    start_year, start_month, end_year, end_month,   \* main's arguments, defaults resolved
    year, month,    \* the loop variables of main
    txt_file_path,  \* result of download_and_extract_file: a path or NoPath
    fetch_status,   \* which branch the last download_and_extract_file took
    disk,           \* DATA_FOLDER: path -> file (a sequence of line ids) or NoFile
    file, lineno,   \* the file being read by process_and_insert_file, lines consumed
    rows, seq,      \* the table and sqlite_sequence as seen by the open connection
    committed,      \* the durable table: [rows, seq]
    fetched,        \* history: the periods passed to download_and_extract_file this run
    submitted,      \* history: the records passed to cursor.execute for the current file
    errlog,         \* history: number of "Error al insertar registro" lines printed
    commits,        \* history: conn.commit() calls this run
    inserted,       \* history: rows added by this run
    committed0,     \* history: the durable table when this run started
    pline, pk, index, parsed, inside   \* parse_line: the line, fields done, running offset,
                                       \* the mapping so far, whether every slice was inside

vars == <<pc, runs, start_year, start_month, end_year, end_month, year, month,
          txt_file_path, fetch_status, disk, file, lineno, rows, seq, committed,
          fetched, submitted, errlog, commits, inserted, committed0,
          pline, pk, index, parsed, inside>>

driverVars == <<pc, runs, start_year, start_month, end_year, end_month, year, month,
                txt_file_path, fetch_status, disk, file, lineno, rows, seq, committed,
                fetched, submitted, errlog, commits, inserted, committed0>>

parseVars == <<pline, pk, index, parsed, inside>>

-----------------------------------------------------------------------------
(* Bounds of the model *)

MaxRuns == 2        \* runs of main per behaviour
NumYears == 2       \* years the range arguments are drawn from
MaxLines == 3       \* lines of a file given to process_and_insert_file

-----------------------------------------------------------------------------
(* Python values *)

NULL == -1

Min(a, b) == IF a < b THEN a ELSE b

\* str.strip() with no argument removes these (of the characters latin-1 can decode
\* to; "NBSP" stands for U+00A0 and "NEL" for U+0085, which have no TLA+ escape).
Whitespace == {" ", "\t", "\n", "\r", "\f", "NBSP", "NEL"}

Digits == {"0", "1", "2", "3", "4", "5", "6", "7", "8", "9"}

DigitVal(c) ==
    CASE c = "0" -> 0 [] c = "1" -> 1 [] c = "2" -> 2 [] c = "3" -> 3 [] c = "4" -> 4
      [] c = "5" -> 5 [] c = "6" -> 6 [] c = "7" -> 7 [] c = "8" -> 8 [] c = "9" -> 9

\* s[a:b] for 0 <= a <= b
Slice(s, a, b) == SubSeq(s, Min(a, Len(s)) + 1, Min(b, Len(s)))

\* the positions of s that hold something other than whitespace
Inked(s) == {i \in 1..Len(s) : s[i] \notin Whitespace}

LStrip(s) ==
    IF Inked(s) = {} THEN <<>>
    ELSE SubSeq(s, CHOOSE i \in Inked(s) : \A j \in Inked(s) : i <= j, Len(s))

RStrip(s) ==
    IF Inked(s) = {} THEN <<>>
    ELSE SubSeq(s, 1, CHOOSE i \in Inked(s) : \A j \in Inked(s) : i >= j)

strip(s) == RStrip(LStrip(s))

startswith(s, prefix) ==
    Len(s) >= Len(prefix) /\ SubSeq(s, 1, Len(prefix)) = prefix

IsDigits(s) == \A i \in 1..Len(s) : s[i] \in Digits

RECURSIVE ToNat(_)
ToNat(s) == IF s = <<>> THEN 0 ELSE 10 * ToNat(SubSeq(s, 1, Len(s) - 1)) + DigitVal(s[Len(s)])

\* int(s) / float(s) of stripped text made of digits, letters and blanks: a run of
\* digits is its value, anything else raises ValueError (NULL here).  Signs, "_",
\* ".", exponents, "inf" and "nan" are outside the texts the model feeds in.
int(s) == IF s # <<>> /\ IsDigits(s) THEN ToNat(s) ELSE NULL

float(s) == IF s # <<>> /\ IsDigits(s) THEN ToNat(s) ELSE NULL

IsLeap(y) == (y % 4 = 0 /\ y % 100 # 0) \/ y % 400 = 0

DaysInMonth(y, m) ==
    IF m = 2 THEN (IF IsLeap(y) THEN 29 ELSE 28)
    ELSE IF m \in {4, 6, 9, 11} THEN 30 ELSE 31

\* datetime.date(y, m, d) adapted by sqlite3 to the text YYYY-MM-DD, encoded as the
\* integer YYYYMMDD (same order, same equality); NULL when date() raises ValueError.
date(y, m, d) ==
    IF y >= 1 /\ m \in 1..12 /\ d \in 1..DaysInMonth(y, m) THEN y * 10000 + m * 100 + d
    ELSE NULL

\* The directive patterns of _strptime: %d is 3[0-1]|[1-2]\d|0[1-9]|[1-9]| [1-9],
\* %m is 1[0-2]|0[1-9]|[1-9], %Y is \d\d\d\d.  DMatch(s, n): the first n characters
\* of s are a %d alternative of length n.
DMatch(s, n) ==
    /\ Len(s) >= n
    /\ IF n = 2
       THEN \/ s[1] = "3" /\ s[2] \in {"0", "1"}
            \/ s[1] \in {"1", "2"} /\ s[2] \in Digits
            \/ s[1] = "0" /\ s[2] \in Digits \ {"0"}
            \/ s[1] = " " /\ s[2] \in Digits \ {"0"}
       ELSE s[1] \in Digits \ {"0"}

MMatch(s, n) ==
    /\ Len(s) >= n
    /\ IF n = 2
       THEN \/ s[1] = "1" /\ s[2] \in {"0", "1", "2"}
            \/ s[1] = "0" /\ s[2] \in Digits \ {"0"}
       ELSE s[1] \in Digits \ {"0"}

YMatch(s) == Len(s) >= 4 /\ IsDigits(SubSeq(s, 1, 4))

\* the regex tries the alternatives in order and backtracks: two-character day
\* before one-character day, two-character month before one-character month
StrptimeSplits == << <<2, 2>>, <<2, 1>>, <<1, 2>>, <<1, 1>> >>

SplitMatches(s, k) ==
    LET dn == StrptimeSplits[k][1]
        mn == StrptimeSplits[k][2]
    IN  /\ DMatch(s, dn)
        /\ MMatch(SubSeq(s, dn + 1, Len(s)), mn)
        /\ YMatch(SubSeq(s, dn + mn + 1, Len(s)))

\* datetime.strptime(s, "%d%m%Y").date(); NULL when it raises ValueError (no match,
\* unconverted data remains, or no such day)
strptime(s) ==
    LET ok == {k \in 1..Len(StrptimeSplits) : SplitMatches(s, k)}
    IN  IF ok = {} THEN NULL
        ELSE LET k  == CHOOSE k \in ok : \A j \in ok : k <= j
                 dn == StrptimeSplits[k][1]
                 mn == StrptimeSplits[k][2]
             IN  IF dn + mn + 4 # Len(s) THEN NULL
                 ELSE date(ToNat(SubSeq(s, dn + mn + 1, dn + mn + 4)),
                           ToNat(SubSeq(s, dn + 1, dn + mn)),
                           ToNat(LStrip(SubSeq(s, 1, dn))))

-----------------------------------------------------------------------------
(* FIELDS: name, size, type, in declaration order *)

FIELDS == <<
    <<"fecha_matriculacion",          8, "DATE">>,
    <<"clase_matricula",              1, "TEXT">>,
    <<"fecha_transferencia",          8, "DATE">>,
    <<"vehiculo_marca",              30, "TEXT">>,
    <<"vehiculo_modelo",             22, "TEXT">>,
    <<"codigo_procedencia",           1, "TEXT">>,
    <<"bastidor",                    21, "TEXT">>,
    <<"codigo_tipo",                  2, "TEXT">>,
    <<"cod_propulsion",               1, "TEXT">>,
    <<"cilindrada",                   5, "REAL">>,
    <<"potencia",                     6, "REAL">>,
    <<"tara",                         6, "REAL">>,
    <<"peso_maximo",                  6, "REAL">>,
    <<"plazas",                       3, "INTEGER">>,
    <<"precintado",                   2, "INTEGER">>,
    <<"embargado",                    2, "INTEGER">>,
    <<"transmisiones",                2, "INTEGER">>,
    <<"titulares",                    2, "INTEGER">>,
    <<"localidad",                   24, "TEXT">>,
    <<"provincia",                    2, "TEXT">>,
    <<"provincia_matriculacion",      2, "TEXT">>,
    <<"tramite",                      1, "TEXT">>,
    <<"fecha_tramite",                8, "DATE">>,
    <<"codigo_postal",                5, "TEXT">>,
    <<"fecha_primera_matriculacion",  8, "DATE">>,
    <<"nuevo",                        1, "INTEGER">>,
    <<"persona_juridica",             1, "INTEGER">>,
    <<"codigo_itv",                   9, "TEXT">>,
    <<"servicio",                     3, "TEXT">>,
    <<"codigo_municipio_ine",         5, "INTEGER">>,
    <<"municipio",                   30, "TEXT">>,
    <<"potencia_kw",                  7, "REAL">>,
    <<"plazas_maximo",                3, "INTEGER">>,
    <<"co2",                          5, "INTEGER">>,
    <<"renting",                      1, "INTEGER">>,
    <<"titular_tutelado",             1, "INTEGER">> >>

FieldNames == {FIELDS[i][1] : i \in 1..Len(FIELDS)}

FieldNo(name) == CHOOSE i \in 1..Len(FIELDS) : FIELDS[i][1] = name

RECURSIVE WidthSum(_)
WidthSum(n) == IF n = 0 THEN 0 ELSE WidthSum(n - 1) + FIELDS[n][2]

LineWidth == WidthSum(Len(FIELDS))

-----------------------------------------------------------------------------
(* parse_line *)

\* parse_value with the flag fields left null on blank text, as the numeric fields are
parse_value_blank_flag_null(value, field_name, field_type) ==
    IF field_type = "DATE"
    THEN (IF strip(value) # <<>> THEN strptime(strip(value)) ELSE NULL)
    ELSE IF field_type = "REAL"
    THEN (IF strip(value) # <<>> THEN float(strip(value)) ELSE NULL)
    ELSE IF field_type = "INTEGER"
    THEN (IF strip(value) = <<>> THEN NULL
          ELSE IF field_name \in {"nuevo", "persona_juridica"}
          THEN (IF strip(value) \in {<<"N">>, <<"X">>} THEN 1 ELSE 0)
          ELSE IF field_name \in {"precintado", "embargado", "renting", "titular_tutelado"}
          THEN (IF strip(value) \in {<<"S", "I">>, <<"S">>} THEN 1 ELSE 0)
          ELSE int(strip(value)))
    ELSE strip(value)

parse_value(value, field_name, field_type) ==
    IF field_type = "DATE"
    THEN (IF strip(value) # <<>> THEN strptime(strip(value)) ELSE NULL)
    ELSE IF field_type = "REAL"
    THEN (IF strip(value) # <<>> THEN float(strip(value)) ELSE NULL)
    ELSE IF field_type = "INTEGER"
    THEN (IF field_name \in {"nuevo", "persona_juridica"}
          THEN (IF strip(value) \in {<<"N">>, <<"X">>} THEN 1 ELSE 0)
          ELSE IF field_name \in {"precintado", "embargado", "renting", "titular_tutelado"}
          THEN (IF strip(value) \in {<<"S", "I">>, <<"S">>} THEN 1 ELSE 0)
          ELSE (IF strip(value) # <<>> THEN int(strip(value)) ELSE NULL))
    ELSE strip(value)

\* parsed = {}
EmptyDict == [name \in {} |-> NULL]

\* lines 96 and 98 for field number i, the running offset being off
field_value(line, off, i) ==
    parse_value(Slice(line, off, off + FIELDS[i][2]), FIELDS[i][1], FIELDS[i][3])

\* lines 93-100: the running offset of a field is the sum of the sizes before it
parse_line(line) ==
    [name \in FieldNames |->
        field_value(line, WidthSum(FieldNo(name) - 1), FieldNo(name))]

-----------------------------------------------------------------------------
(* Input text: lines of the monthly files, laid out by column as published *)

Spaces(n) == [i \in 1..n |-> " "]

PutAt(line, off, text) ==
    [i \in 1..Len(line) |-> IF i > off /\ i <= off + Len(text) THEN text[i - off] ELSE line[i]]

RECURSIVE PutAll(_, _)
PutAll(line, cells) ==
    IF cells = <<>> THEN line
    ELSE PutAll(PutAt(line, Head(cells)[1], Head(cells)[2]), Tail(cells))

\* a 244-column record with the given <<column, text>> cells, the rest blank
DataLine(cells) == PutAll(Spaces(244), cells)

NL == <<"\n">>

D_01122014 == <<"0", "1", "1", "2", "2", "0", "1", "4">>
D_31022014 == <<"3", "1", "0", "2", "2", "0", "1", "4">>

AtFecha(t)      == <<0, t>>
AtMarca(t)      == <<17, t>>
AtBastidor(t)   == <<70, t>>
AtPlazas(t)     == <<117, t>>
AtPrecintado(t) == <<120, t>>
AtEmbargado(t)  == <<122, t>>
AtNuevo(t)      == <<178, t>>
AtJuridica(t)   == <<179, t>>
AtRenting(t)    == <<242, t>>
AtTutelado(t)   == <<243, t>>

\* line.startswith("Veh\355culos matriculados")
HEADER == <<"V", "e", "h", "í", "c", "u", "l", "o", "s", " ",
            "m", "a", "t", "r", "i", "c", "u", "l", "a", "d", "o", "s">>

RecordA   == DataLine(<<AtFecha(D_01122014), AtBastidor(<<"A">>), AtMarca(<<"S", "E", "A", "T">>),
                        AtPlazas(<<"0", "0", "5">>), AtPrecintado(<<"S", "I">>), AtNuevo(<<"N">>)>>)
RecordB   == DataLine(<<AtFecha(D_01122014), AtBastidor(<<"B">>), AtEmbargado(<<"S">>),
                        AtJuridica(<<"X">>), AtTutelado(<<"S">>)>>)
\* the natural key of RecordA, other columns different
RecordA2  == DataLine(<<AtFecha(D_01122014), AtBastidor(<<"A">>), AtMarca(<<"F", "I", "A", "T">>),
                        AtPlazas(<<"5", "X">>), AtRenting(<<"S">>)>>)
\* registration date blank, and not a day of the calendar
RecordNoDate  == DataLine(<<AtBastidor(<<"A">>), AtNuevo(<<"N">>)>>)
RecordBadDate == DataLine(<<AtFecha(D_31022014), AtBastidor(<<"A">>)>>)

\* the lines the files are made of
Lines == <<
    HEADER \o <<" ", "1", "2", "/", "2", "0", "1", "4">> \o NL,
    NL,
    <<" ", "\t">> \o NL,
    RecordA \o NL,
    RecordB \o NL,
    RecordA2 \o NL,
    RecordNoDate \o NL,
    RecordBadDate \o NL,
    <<" ">> \o HEADER \o NL,
    SubSeq(RecordA, 1, 100) >>

LineText(id) == Lines[id]

LineIds == 1..Len(Lines)

NoFile == <<0>>

RECURSIVE SeqsUpTo(_, _)
SeqsUpTo(S, n) ==
    IF n = 0 THEN {<<>>}
    ELSE LET shorter == SeqsUpTo(S, n - 1)
         IN  shorter \cup {Append(f, x) : f \in {g \in shorter : Len(g) = n - 1}, x \in S}

\* every file of at most MaxLines lines out of: header, blank, whitespace only, RecordA,
\* RecordA2, RecordNoDate, indented header
AllFiles == SeqsUpTo({1, 2, 3, 4, 6, 7, 9}, MaxLines)

\* the files the fetcher delivers to the driver
DriverFiles == {<<1, 2, 4>>, <<7, 6>>}

-----------------------------------------------------------------------------
(* The table matriculaciones *)

\* INSERT OR IGNORE with UNIQUE (bastidor, fecha_matriculacion): a row conflicts with
\* the record when both key columns are equal and not NULL (SQLite counts NULLs as
\* distinct in a UNIQUE constraint).
Conflicts(row, record) ==
    /\ row["bastidor"] = record["bastidor"]
    /\ row["fecha_matriculacion"] = record["fecha_matriculacion"]
    /\ record["fecha_matriculacion"] # NULL

\* INSERT OR REPLACE: the conflicting rows are deleted and the record is stored
insert_or_replace(tbl, sq, record) ==
    [rows   |-> Append(SelectSeq(tbl, LAMBDA row : ~Conflicts(row, record)),
                       record @@ ("id" :> sq + 1)),
     seq    |-> sq + 1,
     raised |-> FALSE]

\* cursor.execute(INSERT OR IGNORE ...): the table, sqlite_sequence, and whether
\* sqlite3.IntegrityError was raised.  AUTOINCREMENT takes the next sequence number for
\* every attempt, ignored or not.
insert_or_ignore(tbl, sq, record) ==
    IF \E i \in 1..Len(tbl) : Conflicts(tbl[i], record)
    THEN [rows |-> tbl, seq |-> sq + 1, raised |-> FALSE]
    ELSE [rows |-> Append(tbl, record @@ ("id" :> sq + 1)), seq |-> sq + 1, raised |-> FALSE]

EmptyTable == [rows |-> <<>>, seq |-> 0]

-----------------------------------------------------------------------------
(* download_and_extract_file *)

NoPath == <<>>

\* os.path.join(DATA_FOLDER, filename): the monthly archive holds one text file named
\* after its period
PathOf(y, m) == <<y, m>>

\* outcome: what the network and the archive do.
\*   neterr    requests.get / raise_for_status raises RequestException
\*   ziperr    saving or opening the archive raises before any member is written
\*   ziplate   a member was written to DATA_FOLDER, then reading the archive raises
\*   empty     the archive holds no file entry
\*   ok        the archive holds the file f
FetchOutcomes == {"neterr", "ziperr", "ziplate", "empty", "ok"}

\* download_and_extract_file returning the file it extracted although reading the
\* archive raised afterwards
download_returning_extracted(outcome, f, y, m, d) ==
    [result |-> IF outcome \in {"ok", "ziplate"} THEN PathOf(y, m) ELSE NoPath,
     disk   |-> IF outcome \in {"ok", "ziplate"} THEN [d EXCEPT ![PathOf(y, m)] = f] ELSE d,
     status |-> outcome]

download_and_extract_file(outcome, f, y, m, d) ==
    [result |-> IF outcome = "ok" THEN PathOf(y, m) ELSE NoPath,
     disk   |-> IF outcome \in {"ok", "ziplate"} THEN [d EXCEPT ![PathOf(y, m)] = f] ELSE d,
     status |-> outcome]

-----------------------------------------------------------------------------
(* main *)

DEFAULT_START_YEAR == 2014
DEFAULT_START_MONTH == 12

Years == DEFAULT_START_YEAR .. (DEFAULT_START_YEAR + NumYears - 1)
Months == 1..12
Periods == Years \X Months

\* None (and 0) for end_year / end_month: "end_year or datetime.now().year"
ABSENT == 0

Args(sy, sm, ey, em, ny, nm) ==
    [start_year |-> sy, start_month |-> sm, end_year |-> ey, end_month |-> em,
     now_year |-> ny, now_month |-> nm]

\* the arguments of the runs that fetch and load files
DriverArgs ==
    {Args(DEFAULT_START_YEAR, DEFAULT_START_MONTH, ABSENT, ABSENT, DEFAULT_START_YEAR + 1, 1),
     Args(DEFAULT_START_YEAR, DEFAULT_START_MONTH, DEFAULT_START_YEAR, DEFAULT_START_MONTH,
          DEFAULT_START_YEAR + 1, 1),
     Args(DEFAULT_START_YEAR + 1, 1, DEFAULT_START_YEAR, DEFAULT_START_MONTH,
          DEFAULT_START_YEAR + 1, 1)}

\* every range over Years, with the end given or left to the current date
RangeArgs ==
    {Args(sy, sm, ey, em, DEFAULT_START_YEAR + NumYears - 1, 6) :
        sy \in Years, sm \in Months, ey \in Years \cup {ABSENT}, em \in Months \cup {ABSENT}}

\* lines 151-157: connect, create_table (IF NOT EXISTS), resolve the defaults
StartRun(argset, maxruns) ==
    /\ pc \in {"idle", "done", "crashed"}
    /\ runs < maxruns
    /\ \E a \in argset :
        /\ start_year' = a.start_year
        /\ start_month' = a.start_month
        /\ end_year' = (IF a.end_year # ABSENT THEN a.end_year ELSE a.now_year)
        /\ end_month' = (IF a.end_month # ABSENT THEN a.end_month ELSE a.now_month)
        /\ year' = a.start_year
    /\ month' = 1
    /\ runs' = runs + 1
    /\ rows' = committed.rows
    /\ seq' = committed.seq
    /\ committed0' = committed
    /\ fetched' = <<>>
    /\ commits' = 0
    /\ inserted' = 0
    /\ errlog' = 0
    /\ pc' = "loop"
    /\ UNCHANGED <<txt_file_path, fetch_status, disk, file, lineno, committed, submitted>>
    /\ UNCHANGED parseVars

\* line 161
skip_month == year = start_year /\ month < start_month

\* the month loop left one month early
break_month_early == year = end_year /\ month >= end_month

\* line 163
break_month == year = end_year /\ month > end_month

\* range(start_year, end_year + 1) is exhausted
LoopExit ==
    /\ pc = "loop"
    /\ year > end_year
    /\ pc' = "commit"
    /\ UNCHANGED <<runs, start_year, start_month, end_year, end_month, year, month,
                   txt_file_path, fetch_status, disk, file, lineno, rows, seq, committed,
                   fetched, submitted, errlog, commits, inserted, committed0>>
    /\ UNCHANGED parseVars

NextYear ==
    /\ year' = year + 1
    /\ month' = 1
    /\ UNCHANGED <<pc, runs, start_year, start_month, end_year, end_month,
                   txt_file_path, fetch_status, disk, file, lineno, rows, seq, committed,
                   fetched, submitted, errlog, commits, inserted, committed0>>
    /\ UNCHANGED parseVars

\* range(1, 13) is exhausted
YearEnd ==
    /\ pc = "loop"
    /\ year <= end_year
    /\ month = 13
    /\ NextYear

\* lines 161-162: continue
Skip ==
    /\ pc = "loop"
    /\ year <= end_year
    /\ month <= 12
    /\ skip_month
    /\ month' = month + 1
    /\ UNCHANGED <<pc, runs, start_year, start_month, end_year, end_month, year,
                   txt_file_path, fetch_status, disk, file, lineno, rows, seq, committed,
                   fetched, submitted, errlog, commits, inserted, committed0>>
    /\ UNCHANGED parseVars

\* lines 163-164: break
Break ==
    /\ pc = "loop"
    /\ year <= end_year
    /\ month <= 12
    /\ ~skip_month
    /\ break_month
    /\ NextYear

\* line 166
Fetch(outcomes, files) ==
    /\ pc = "loop"
    /\ year <= end_year
    /\ month <= 12
    /\ ~skip_month
    /\ ~break_month
    /\ \E o \in outcomes, f \in files :
        LET r == download_and_extract_file(o, f, year, month, disk)
        IN  /\ txt_file_path' = r.result
            /\ disk' = r.disk
            /\ fetch_status' = r.status
    /\ fetched' = Append(fetched, <<year, month>>)
    /\ pc' = "check"
    /\ UNCHANGED <<runs, start_year, start_month, end_year, end_month, year, month,
                   file, lineno, rows, seq, committed,
                   submitted, errlog, commits, inserted, committed0>>
    /\ UNCHANGED parseVars

\* line 167: if txt_file_path and os.path.exists(txt_file_path)
has_file == txt_file_path # NoPath /\ disk[txt_file_path] # NoFile

\* lines 167-168, 137-138: the file is opened
OpenFile ==
    /\ pc = "check"
    /\ has_file
    /\ file' = disk[txt_file_path]
    /\ lineno' = 0
    /\ submitted' = <<>>
    /\ fetch_status' = "none"
    /\ pc' = "file"
    /\ UNCHANGED <<runs, start_year, start_month, end_year, end_month, year, month,
                   txt_file_path, disk, rows, seq, committed,
                   fetched, errlog, commits, inserted, committed0>>
    /\ UNCHANGED parseVars

\* line 167 false: on to the next month
NoData ==
    /\ pc = "check"
    /\ ~has_file
    /\ month' = month + 1
    /\ fetch_status' = "none"
    /\ pc' = "loop"
    /\ UNCHANGED <<runs, start_year, start_month, end_year, end_month, year,
                   txt_file_path, disk, file, lineno, rows, seq, committed,
                   fetched, submitted, errlog, commits, inserted, committed0>>
    /\ UNCHANGED parseVars

\* the header marker looked for after stripping the line
is_data_line_stripped(line) == strip(line) # <<>> /\ ~startswith(strip(line), HEADER)

\* line 140
is_data_line(line) == strip(line) # <<>> /\ ~startswith(line, HEADER)

\* lines 139-148: one iteration of "for line in txt_file"
ProcessLine ==
    /\ pc = "file"
    /\ lineno < Len(file)
    /\ LET line == LineText(file[lineno + 1])
       IN  IF is_data_line(line)
           THEN LET record == parse_line(line)
                    r      == insert_or_ignore(rows, seq, record)
                IN  /\ rows' = r.rows
                    /\ seq' = r.seq
                    /\ errlog' = (IF r.raised THEN errlog + 1 ELSE errlog)
                    /\ submitted' = Append(submitted, record)
                    /\ inserted' = inserted + (Len(r.rows) - Len(rows))
           ELSE UNCHANGED <<rows, seq, errlog, submitted, inserted>>
    /\ lineno' = lineno + 1
    /\ UNCHANGED <<pc, runs, start_year, start_month, end_year, end_month, year, month,
                   txt_file_path, fetch_status, disk, file, committed,
                   fetched, commits, committed0>>
    /\ UNCHANGED parseVars

\* main committing after each file
FileEndCommitting ==
    /\ pc = "file"
    /\ lineno = Len(file)
    /\ month' = month + 1
    /\ pc' = "loop"
    /\ committed' = [rows |-> rows, seq |-> seq]
    /\ commits' = commits + 1
    /\ UNCHANGED <<runs, start_year, start_month, end_year, end_month, year,
                   txt_file_path, fetch_status, disk, file, lineno, rows, seq,
                   fetched, submitted, errlog, inserted, committed0>>
    /\ UNCHANGED parseVars

\* the file is exhausted: back in main, next month
FileEnd ==
    /\ pc = "file"
    /\ lineno = Len(file)
    /\ month' = month + 1
    /\ pc' = "loop"
    /\ UNCHANGED <<runs, start_year, start_month, end_year, end_month, year,
                   txt_file_path, fetch_status, disk, file, lineno, rows, seq, committed,
                   fetched, submitted, errlog, commits, inserted, committed0>>
    /\ UNCHANGED parseVars

\* lines 170-171
Commit ==
    /\ pc = "commit"
    /\ committed' = [rows |-> rows, seq |-> seq]
    /\ commits' = commits + 1
    /\ pc' = "done"
    /\ UNCHANGED <<runs, start_year, start_month, end_year, end_month, year, month,
                   txt_file_path, fetch_status, disk, file, lineno, rows, seq,
                   fetched, submitted, errlog, inserted, committed0>>
    /\ UNCHANGED parseVars

\* the process is terminated, or an error leaves main uncaught: the connection is
\* dropped with its transaction open and SQLite rolls it back
Crash ==
    /\ pc \in {"loop", "check", "file", "commit"}
    /\ pc' = "crashed"
    /\ rows' = committed.rows
    /\ seq' = committed.seq
    /\ UNCHANGED <<runs, start_year, start_month, end_year, end_month, year, month,
                   txt_file_path, fetch_status, disk, file, lineno, committed,
                   fetched, submitted, errlog, commits, inserted, committed0>>
    /\ UNCHANGED parseVars

NoParse == pline = <<>> /\ pk = 0 /\ index = 0 /\ parsed = EmptyDict /\ inside = TRUE

Init ==
    /\ pc = "idle"
    /\ runs = 0
    /\ start_year = DEFAULT_START_YEAR
    /\ start_month = DEFAULT_START_MONTH
    /\ end_year = DEFAULT_START_YEAR
    /\ end_month = DEFAULT_START_MONTH
    /\ year = DEFAULT_START_YEAR
    /\ month = 1
    /\ txt_file_path = NoPath
    /\ fetch_status = "none"
    /\ disk = [p \in Periods |-> NoFile]
    /\ file = <<>>
    /\ lineno = 0
    /\ rows = <<>>
    /\ seq = 0
    /\ committed = EmptyTable
    /\ fetched = <<>>
    /\ submitted = <<>>
    /\ errlog = 0
    /\ commits = 0
    /\ inserted = 0
    /\ committed0 = EmptyTable
    /\ NoParse

\* the steps of main around the reading of a file
ControlSteps(outcomes, files) ==
    \/ LoopExit
    \/ YearEnd
    \/ Skip
    \/ Break
    \/ Fetch(outcomes, files)
    \/ OpenFile
    \/ NoData
    \/ FileEnd
    \/ Commit

MainSteps(outcomes, files) ==
    \/ ControlSteps(outcomes, files)
    \/ ProcessLine

Next ==
    \/ StartRun(DriverArgs, MaxRuns)
    \/ MainSteps(FetchOutcomes, DriverFiles)
    \/ Crash

Spec == Init /\ [][Next]_vars

\* main with no termination and no uncaught error; it runs to its end
NextLive ==
    \/ StartRun(DriverArgs, MaxRuns)
    \/ MainSteps(FetchOutcomes, DriverFiles)

\* a step of ProcessLine, by what it does to the position in the file
ReadsLine == pc = "file" /\ lineno < Len(file) /\ lineno' = lineno + 1

\* main is sequential code: a step that can be taken is taken; whether main is
\* started again is up to the user
LiveSpec ==
    /\ Init
    /\ [][NextLive]_vars
    /\ WF_vars(ControlSteps(FetchOutcomes, DriverFiles))
    /\ WF_lineno(ReadsLine)

\* main over every range of Years, the fetcher delivering no file
NextRange ==
    \/ StartRun(RangeArgs, 1)
    \/ LoopExit
    \/ YearEnd
    \/ Skip
    \/ Break
    \/ Fetch({"neterr", "ziperr", "empty"}, {NoFile})
    \/ NoData
    \/ Commit

SpecRange == Init /\ [][NextRange]_vars

-----------------------------------------------------------------------------
(* process_and_insert_file called on its own *)

\* a table that already holds the row of RecordA
TableWithA ==
    LET r == insert_or_ignore(<<>>, 0, parse_line(RecordA \o NL))
    IN  [rows |-> r.rows, seq |-> r.seq]

InitFile ==
    /\ pc = "file"
    /\ runs = 0
    /\ start_year = DEFAULT_START_YEAR
    /\ start_month = DEFAULT_START_MONTH
    /\ end_year = DEFAULT_START_YEAR
    /\ end_month = DEFAULT_START_MONTH
    /\ year = DEFAULT_START_YEAR
    /\ month = DEFAULT_START_MONTH
    /\ txt_file_path = PathOf(DEFAULT_START_YEAR, DEFAULT_START_MONTH)
    /\ fetch_status = "none"
    /\ file \in AllFiles
    /\ disk = [p \in Periods |-> IF p = txt_file_path THEN file ELSE NoFile]
    /\ lineno = 0
    /\ committed \in {EmptyTable, TableWithA}
    /\ rows = committed.rows
    /\ seq = committed.seq
    /\ fetched = <<>>
    /\ submitted = <<>>
    /\ errlog = 0
    /\ commits = 0
    /\ inserted = 0
    /\ committed0 = committed
    /\ NoParse

\* the file is exhausted: process_and_insert_file returns
FileReturn ==
    /\ pc = "file"
    /\ lineno = Len(file)
    /\ pc' = "returned"
    /\ UNCHANGED <<runs, start_year, start_month, end_year, end_month, year, month,
                   txt_file_path, fetch_status, disk, file, lineno, rows, seq, committed,
                   fetched, submitted, errlog, commits, inserted, committed0>>
    /\ UNCHANGED parseVars

NextFile ==
    \/ ProcessLine
    \/ FileReturn

SpecFile == InitFile /\ [][NextFile]_vars

-----------------------------------------------------------------------------
(* parse_line called on its own, one field per step *)

FlagTexts1 == {<<"N">>, <<"X">>, <<"S">>, <<" ">>, <<"n">>, <<"1">>}
FlagTexts2 == {<<"S", "I">>, <<"S", " ">>, <<" ", "S">>, <<"N", "O">>, <<" ", " ">>,
               <<"I", "S">>, <<"X", " ">>, <<"s", "i">>}

FlagLine(a, c) ==
    DataLine(<<AtFecha(D_01122014), AtBastidor(<<"A">>), AtNuevo(a), AtJuridica(a),
               AtRenting(a), AtTutelado(a), AtPrecintado(c), AtEmbargado(c)>>)

CutLengths == {0, 100, 121, 122, 171, 179, 243, 244}

ParseLines ==
    {SubSeq(FlagLine(a, c), 1, n) : a \in FlagTexts1, c \in FlagTexts2, n \in CutLengths}
    \cup {FlagLine(a, c) \o NL : a \in FlagTexts1, c \in FlagTexts2}
    \cup {LineText(id) : id \in LineIds}

InitParse ==
    /\ pc = "idle"
    /\ runs = 0
    /\ start_year = DEFAULT_START_YEAR
    /\ start_month = DEFAULT_START_MONTH
    /\ end_year = DEFAULT_START_YEAR
    /\ end_month = DEFAULT_START_MONTH
    /\ year = DEFAULT_START_YEAR
    /\ month = 1
    /\ txt_file_path = NoPath
    /\ fetch_status = "none"
    /\ disk = [p \in Periods |-> NoFile]
    /\ file = <<>>
    /\ lineno = 0
    /\ rows = <<>>
    /\ seq = 0
    /\ committed = EmptyTable
    /\ fetched = <<>>
    /\ submitted = <<>>
    /\ errlog = 0
    /\ commits = 0
    /\ inserted = 0
    /\ committed0 = EmptyTable
    /\ pline \in ParseLines
    /\ pk = 0
    /\ index = 0
    /\ parsed = EmptyDict
    /\ inside = TRUE

\* the loop stepping over a separator after each field
ParseStepSeparated ==
    /\ pk < Len(FIELDS)
    /\ parsed' = parsed @@ (FIELDS[pk + 1][1] :> field_value(pline, index, pk + 1))
    /\ inside' = (inside /\ index + FIELDS[pk + 1][2] <= Len(pline))
    /\ index' = index + FIELDS[pk + 1][2] + 1
    /\ pk' = pk + 1
    /\ UNCHANGED pline
    /\ UNCHANGED driverVars

\* lines 95-98: one iteration of the loop over FIELDS.items()
ParseStep ==
    /\ pk < Len(FIELDS)
    /\ parsed' = parsed @@ (FIELDS[pk + 1][1] :> field_value(pline, index, pk + 1))
    /\ inside' = (inside /\ index + FIELDS[pk + 1][2] <= Len(pline))
    /\ index' = index + FIELDS[pk + 1][2]
    /\ pk' = pk + 1
    /\ UNCHANGED pline
    /\ UNCHANGED driverVars

NextParse == ParseStep

SpecParse == InitParse /\ [][NextParse]_vars

-----------------------------------------------------------------------------
(* Properties *)

IsPrefix(s, t) == Len(s) <= Len(t) /\ SubSeq(t, 1, Len(s)) = s

SameKey(a, b) ==
    /\ a["bastidor"] = b["bastidor"]
    /\ a["fecha_matriculacion"] = b["fecha_matriculacion"]

\* the step of ProcessLine that submits a record to the table
InsertStep == pc = "file" /\ lineno < Len(file) /\ lineno' = lineno + 1
              /\ is_data_line(LineText(file[lineno + 1]))

NextRecord == parse_line(LineText(file[lineno + 1]))

\* C1: inserting, through process_and_insert_file, a record whose (bastidor,
\* fecha_matriculacion) equals that of a row already in the table leaves the number
\* of rows unchanged, whatever the record, a null registration date included.
C1_ReinsertKeepsCount ==
    [][(InsertStep /\ \E i \in 1..Len(rows) : SameKey(rows[i], NextRecord))
        => Len(rows') = Len(rows)]_vars

\* C2: no two persisted rows have the same (bastidor, fecha_matriculacion).
C2_KeyUnique ==
    \A i, j \in 1..Len(committed.rows) :
        i # j => ~SameKey(committed.rows[i], committed.rows[j])

\* C3: main commits once, and only after the loop over the whole range has ended;
\* in every state of a run before that commit, and after the run was cut short, the
\* durable table is the one the run started with.
C3_SingleFinalCommit ==
    /\ commits <= 1
    /\ pc \in {"loop", "check", "file", "commit", "crashed"}
          => commits = 0 /\ committed = committed0
    /\ pc = "done" => commits = 1 /\ year > end_year
                      /\ committed = [rows |-> rows, seq |-> seq]

C3_Witness == pc = "crashed" /\ inserted > 0 /\ committed = committed0

\* the periods from (start_year, start_month) to (end_year, end_month), ascending
ExpectedPeriods ==
    LET lo == start_year * 12 + (start_month - 1)
        hi == end_year * 12 + (end_month - 1)
    IN  [k \in 1..(hi - lo + 1) |-> <<(lo + k - 1) \div 12, ((lo + k - 1) % 12) + 1>>]

\* C4: main calls the fetcher once for each period of the range, in ascending order,
\* and for no other period: what it has fetched is always a prefix of the range's
\* periods, and all of them once the loop has ended.
C4_FetchesExactlyTheRange ==
    /\ pc # "idle" => IsPrefix(fetched, ExpectedPeriods)
    /\ pc \in {"commit", "done"} => fetched = ExpectedPeriods

C4_Witness ==
    /\ pc = "done"
    /\ start_year < end_year
    /\ start_month > end_month
    /\ Len(fetched) = 12 - start_month + 1 + end_month

FetchFailed == pc = "check" /\ fetch_status \in {"neterr", "ziperr", "ziplate"}

\* C5: after a failed fetch download_and_extract_file has returned absent; main then
\* inserts nothing for the period, a file of an earlier fetch on disk or not, moves to
\* the next month, fetches the rest of the range and reaches the commit.
C5_FetchFailureNotFatal ==
    /\ [](FetchFailed => txt_file_path = NoPath)
    /\ [][FetchFailed => pc' = "loop" /\ rows' = rows /\ seq' = seq
                         /\ year' = year /\ month' = month + 1]_vars
    /\ [](pc = "done" => fetched = ExpectedPeriods)
    /\ (FetchFailed ~> pc = "done")

C5_Witness == FetchFailed /\ disk[PathOf(year, month)] # NoFile /\ month < end_month + 12 * (end_year - year)

\* C6: an insert that would violate the uniqueness constraint adds no row, prints the
\* violation on the console, and processing goes on with the next line.
C6_ConflictLogged ==
    [][(InsertStep /\ \E i \in 1..Len(rows) : Conflicts(rows[i], NextRecord))
        => Len(rows') = Len(rows) /\ errlog' = errlog + 1 /\ pc' = "file"]_vars

ParseDone == pk = Len(FIELDS)

\* C7 as stated: a line of 171 characters is consumed exactly by parse_line.
C7_Width171 ==
    (ParseDone /\ Len(pline) = 171) => (index = Len(pline) /\ inside)

\* C7, amended: the widths sum to 244; parse_line ends with its running offset at
\* 244, which is the length of a 244-character line, and every slice lies inside the
\* line exactly when the line has at least 244 characters.
C7_Width244 ==
    ParseDone =>
        /\ LineWidth = 244
        /\ index = 244
        /\ Len(pline) = 244 => index = Len(pline) /\ inside
        /\ inside <=> Len(pline) >= 244

C7_Witness == ParseDone /\ Len(pline) = 244 /\ inside

IsBlank(line) == \A i \in 1..Len(line) : line[i] \in Whitespace

BeginsWithHeader(line) ==
    \A i \in 1..Len(HEADER) : i <= Len(line) /\ line[i] = HEADER[i]

\* the lines read so far that are neither blank nor begin with the header marker
DataLinesRead ==
    SelectSeq(SubSeq(file, 1, lineno),
              LAMBDA id : ~IsBlank(LineText(id)) /\ ~BeginsWithHeader(LineText(id)))

\* C8: the records submitted to the table are the parses of the lines that are neither
\* blank nor begin with the header marker, each once, in file order; a header line, a
\* blank line and a data line loaded into an empty table leave one row.
C8_OnlyDataLinesSubmitted ==
    /\ submitted = [k \in 1..Len(DataLinesRead) |-> parse_line(LineText(DataLinesRead[k]))]
    /\ seq = committed.seq + Len(submitted)
    /\ (pc = "returned" /\ file = <<1, 2, 4>> /\ committed = EmptyTable) => Len(rows) = 1

C8_Witness ==
    /\ pc = "returned" /\ file = <<1, 2, 4>> /\ committed = EmptyTable
    /\ Len(rows) = 1 /\ Len(submitted) = 1

\* C9: no step of the system changes or removes a row of the table: the durable rows
\* only grow at the end, and so do the rows the open connection sees (a run cut short
\* loses only what it never committed).
C9_AppendOnly ==
    [][/\ IsPrefix(committed.rows, committed'.rows)
       /\ pc' # "crashed" => IsPrefix(rows, rows')]_vars

\* a record with the key of RecordA has been submitted after RecordA was stored
C9_Witness ==
    /\ pc = "file" /\ lineno > 0 /\ file[lineno] = 6
    /\ \E i \in 1..Len(rows) : /\ SameKey(rows[i], parse_line(LineText(6)))
                               /\ rows[i]["vehiculo_marca"] = <<"S", "E", "A", "T">>

FlagColumn ==
    [name \in {"nuevo", "persona_juridica", "precintado", "embargado", "renting",
               "titular_tutelado"} |->
        CASE name = "nuevo" -> <<178, 179>>
          [] name = "persona_juridica" -> <<179, 180>>
          [] name = "precintado" -> <<120, 122>>
          [] name = "embargado" -> <<122, 124>>
          [] name = "renting" -> <<242, 243>>
          [] name = "titular_tutelado" -> <<243, 244>>]

FlagText(name) == strip(Slice(pline, FlagColumn[name][1], FlagColumn[name][2]))

\* C10: the six flag fields are 0 or 1, never null, for every line, lines too short to
\* hold the field included: nuevo and persona_juridica are 1 exactly for "N" or "X",
\* the other four exactly for "SI" or "S".
C10_FlagsAreBits ==
    \A name \in DOMAIN FlagColumn :
        name \in DOMAIN parsed =>
            /\ parsed[name] \in {0, 1}
            /\ parsed[name] = 1 <=>
                IF name \in {"nuevo", "persona_juridica"}
                THEN FlagText(name) \in {<<"N">>, <<"X">>}
                ELSE FlagText(name) \in {<<"S", "I">>, <<"S">>}

\* a line that ends before the column of nuevo, with precintado set
C10_Witness ==
    /\ ParseDone /\ Len(pline) = 122
    /\ parsed["precintado"] = 1 /\ parsed["embargado"] = 0 /\ parsed["nuevo"] = 0

====
